---- MODULE Spec2Model ----
(***************************************************************************)
(* A model of libapi's response package: the trace-id context helpers      *)
(* (WithTraceID, NewAPIResponse), the envelope builders (NewSuccessResponse,*)
(* NewErrorResponse, NewValidationErrorResponse) and the transport helper  *)
(* RespondJSON with the encoding/json field rules of the envelope types.   *)
(*                                                                         *)
(* Optional Go values (nil-able pointers, interfaces) are sequences of     *)
(* length 0 (nil) or 1 (the value).  A Go slice is a sequence; the nil     *)
(* slice and the empty slice are both << >> (both have len 0 and both are  *)
(* dropped by omitempty).                                                  *)
(***************************************************************************)
EXTENDS Integers, Sequences, FiniteSets, TLC

\* ------------------------------------------------------------------ bounds
NumRequests == 2    \* concurrent requests deriving contexts
MaxCtx == 4         \* context values allocated in all (two exist at start)
MaxDetails == 2     \* longest details slice given to the validation builder

Requests == 1..NumRequests

\* --------------------------------------------------------------- constants
StatusSuccess == "success"
StatusError == "error"
StatusUnprocessableEntity == 422
ContentTypeJSON == "application/json"
ValidationCode == "VALIDATION_FAILED"
ValidationMessage == "Data yang dikirim tidak valid."

\* context.Context values: nil, context.Background(), or the index of a
\* valueCtx in the heap
NilCtx == -1
Background == 0
TraceIDKey == "traceIDKey"
OtherKey == "otherKey"

\* http.StatusOK: the status an implicit WriteHeader commits
StatusOK == 200

\* RespondJSON's error result: nil, a json.Marshal failure, or the error the
\* ResponseWriter's Write returned
ErrNil == "nil"
ErrJSON == "json: unsupported value"
ErrWrite == "write failed"

\* ------------------------------------------------------------ input domains
TraceIDs == {"", "t1", "t2"}

\* a Go value with no JSON representation (a channel, a func, a cycle)
Unsupported == "chan"
DataValues == { << >>, <<"d1">>, <<Unsupported>> }
MetaValues ==
    { << >>,
      << [Page |-> 0, PerPage |-> 0, TotalItems |-> 0] >>,
      << [Page |-> 1, PerPage |-> 10, TotalItems |-> 25] >> }
HTTPStatuses == {0, 404, 500}
Codes == {"", "NOT_FOUND"}
Messages == {"", "not found"}
ValidationErrors ==
    { [Field |-> "email", Message |-> "invalid"],
      [Field |-> "age", Message |-> "negative"] }
DetailsValues ==
    UNION { [1..n -> ValidationErrors] : n \in 0..MaxDetails }
StatusCodes == {200, 422, 500}

VARIABLES
    heap,      \* the valueCtx objects allocated so far: [parent, key, val]
    parent,    \* the context the requests start from (r.Context())
    rctx,      \* rctx[r]: the context request r currently holds
    wt,        \* wt[r]: request r's last WithTraceID call, << >> if none
               \* (was: what ctx read as when the call was made)
    na,        \* na[r]: request r's last NewAPIResponse call, << >> if none
    built,     \* the last builder call: its name, arguments and result
    resp,      \* the envelope the handler holds, << >> before any is built
    call       \* the last RespondJSON call: arguments, writer, error

ctxVars == <<heap, parent, rctx, wt, na>>
respVars == <<built, resp, call>>
vars == <<heap, parent, rctx, wt, na, built, resp, call>>

\* ------------------------------------------------------------- envelope
\* APIResponse{}: the zero value
ZeroResponse ==
    [Status |-> "", TraceID |-> "", Data |-> << >>, Error |-> << >>,
     Meta |-> << >>]

\* --------------------------------------------------------------- contexts
\* ctx.Value(key): << >> when no ancestor holds the key, else <<val>> of the
\* nearest one
\* (mutant) the outermost ancestor holding the key wins
RECURSIVE ValueOutermost(_, _, _)
ValueOutermost(h, c, key) ==
    IF c = Background THEN << >>
    ELSE LET up == ValueOutermost(h, h[c].parent, key) IN
         IF up # << >> THEN up
         ELSE IF h[c].key = key THEN <<h[c].val>> ELSE << >>

RECURSIVE Value(_, _, _)
Value(h, c, key) ==
    IF c = Background THEN << >>
    ELSE IF h[c].key = key THEN <<h[c].val>>
    ELSE Value(h, h[c].parent, key)

\* context.WithValue(parent, key, val): panics on a nil parent, else allocates
\* a new valueCtx that points at the parent; the parent object is not touched
\* (mutant) stores the pair in the given valueCtx itself
WithValueInPlace(h, c, key, val) ==
    IF c = NilCtx
    THEN [heap |-> h, ret |-> NilCtx, panicked |-> TRUE]
    ELSE IF c = Background
    THEN [heap |-> Append(h, [parent |-> c, key |-> key, val |-> val]),
          ret |-> Len(h) + 1, panicked |-> FALSE]
    ELSE [heap |-> [h EXCEPT ![c] = [@ EXCEPT !.key = key, !.val = val]],
          ret |-> c, panicked |-> FALSE]

WithValue(h, c, key, val) ==
    IF c = NilCtx
    THEN [heap |-> h, ret |-> NilCtx, panicked |-> TRUE]
    ELSE [heap |-> Append(h, [parent |-> c, key |-> key, val |-> val]),
          ret |-> Len(h) + 1, panicked |-> FALSE]

WithTraceID(h, c, traceID) == WithValue(h, c, TraceIDKey, traceID)

\* (mutant) the envelope starts out as a success response
NewAPIResponseSuccess(h, c) ==
    IF c # NilCtx /\ Value(h, c, TraceIDKey) # << >>
    THEN [ZeroResponse EXCEPT !.Status = StatusSuccess,
                              !.TraceID = Value(h, c, TraceIDKey)[1]]
    ELSE [ZeroResponse EXCEPT !.Status = StatusSuccess]

NewAPIResponse(h, c) ==
    IF c # NilCtx /\ Value(h, c, TraceIDKey) # << >>
    THEN [ZeroResponse EXCEPT !.TraceID = Value(h, c, TraceIDKey)[1]]
    ELSE ZeroResponse

\* --------------------------------------------------------------- builders
\* (mutant) forgets the metadata
NewSuccessResponseNoMeta(data, meta) ==
    [ZeroResponse EXCEPT !.Status = StatusSuccess, !.Data = data]

NewSuccessResponse(data, meta) ==
    [ZeroResponse EXCEPT !.Status = StatusSuccess, !.Data = data,
                         !.Meta = meta]

\* (mutant) code and message change places
NewErrorResponseSwapped(httpStatus, code, message) ==
    [ZeroResponse EXCEPT
        !.Status = StatusError,
        !.Error = << [HTTPStatus |-> httpStatus, Code |-> message,
                      Message |-> code, Details |-> << >>] >>]

NewErrorResponse(httpStatus, code, message) ==
    [ZeroResponse EXCEPT
        !.Status = StatusError,
        !.Error = << [HTTPStatus |-> httpStatus, Code |-> code,
                      Message |-> message, Details |-> << >>] >>]

\* (mutant) the details come out in reverse order
NewValidationErrorResponseReversed(details) ==
    [ZeroResponse EXCEPT
        !.Status = StatusError,
        !.Error = << [HTTPStatus |-> StatusUnprocessableEntity,
                      Code |-> ValidationCode,
                      Message |-> ValidationMessage,
                      Details |-> [i \in 1..Len(details) |->
                                      details[Len(details) + 1 - i]]] >>]

\* (mutant) the details are also put in data
NewValidationErrorResponseWithData(details) ==
    [ZeroResponse EXCEPT
        !.Status = StatusError,
        !.Data = <<"details">>,
        !.Error = << [HTTPStatus |-> StatusUnprocessableEntity,
                      Code |-> ValidationCode,
                      Message |-> ValidationMessage,
                      Details |-> details] >>]

NewValidationErrorResponse(details) ==
    [ZeroResponse EXCEPT
        !.Status = StatusError,
        !.Error = << [HTTPStatus |-> StatusUnprocessableEntity,
                      Code |-> ValidationCode,
                      Message |-> ValidationMessage,
                      Details |-> details] >>]

\* ------------------------------------------------------------------- JSON
\* A JSON object is a record of optional members: << >> is a key that does
\* not appear in the output, <<v>> a key that appears with value v.

\* omitempty on a string, an int or a slice
\* (mutant) the tag without omitempty: the empty string is written too
OmitEmptyStringNever(v) == <<v>>

OmitEmptyString(v) == IF v = "" THEN << >> ELSE <<v>>
OmitEmptyInt(v) == IF v = 0 THEN << >> ELSE <<v>>
OmitEmptySeq(v) == IF Len(v) = 0 THEN << >> ELSE <<v>>

\* ValidationError: `json:"field"`, `json:"message"`
MarshalValidationError(d) == [field |-> d.Field, message |-> d.Message]

\* APIError: HTTPStatus `json:"-"`, code, message, `json:"details,omitempty"`
\* (mutant) HTTPStatus tagged `json:"http_status"` instead of `json:"-"`
MarshalErrorWithStatus(e) ==
    [http_status |-> <<e.HTTPStatus>>,
     code |-> <<e.Code>>,
     message |-> <<e.Message>>,
     details |-> IF Len(e.Details) = 0 THEN << >>
                 ELSE << [i \in 1..Len(e.Details) |->
                            [field |-> e.Details[i].Field,
                             message |-> e.Details[i].Message]] >>]

MarshalError(e) ==
    [code |-> <<e.Code>>,
     message |-> <<e.Message>>,
     details |-> OmitEmptySeq([i \in 1..Len(e.Details) |->
                                  MarshalValidationError(e.Details[i])])]

\* Metadata: every field omitempty
MarshalMeta(m) ==
    [page |-> OmitEmptyInt(m.Page),
     per_page |-> OmitEmptyInt(m.PerPage),
     total_items |-> OmitEmptyInt(m.TotalItems)]

\* whether encoding/json can encode the payload
Serializable(v) == v.Data # <<Unsupported>>

\* APIResponse: status always, the other four omitempty (a nil interface
\* and a nil pointer are empty)
MarshalResponse(v) ==
    [status |-> <<v.Status>>,
     trace_id |-> OmitEmptyString(v.TraceID),
     data |-> v.Data,
     error |-> IF v.Error = << >> THEN << >>
               ELSE <<MarshalError(v.Error[1])>>,
     meta |-> IF v.Meta = << >> THEN << >>
              ELSE <<MarshalMeta(v.Meta[1])>>]

\* json.Unmarshal of an object into the same struct types: a member that is
\* missing leaves the field at its zero value; HTTPStatus is never read
OrZeroString(o) == IF o = << >> THEN "" ELSE o[1]
OrZeroInt(o) == IF o = << >> THEN 0 ELSE o[1]

UnmarshalValidationError(d) == [Field |-> d.field, Message |-> d.message]

UnmarshalError(e) ==
    [HTTPStatus |-> 0,
     Code |-> OrZeroString(e.code),
     Message |-> OrZeroString(e.message),
     Details |-> IF e.details = << >> THEN << >>
                 ELSE [i \in 1..Len(e.details[1]) |->
                          UnmarshalValidationError(e.details[1][i])]]

UnmarshalMeta(m) ==
    [Page |-> OrZeroInt(m.page),
     PerPage |-> OrZeroInt(m.per_page),
     TotalItems |-> OrZeroInt(m.total_items)]

UnmarshalResponse(doc) ==
    [Status |-> OrZeroString(doc.status),
     TraceID |-> OrZeroString(doc.trace_id),
     Data |-> doc.data,
     Error |-> IF doc.error = << >> THEN << >>
               ELSE <<UnmarshalError(doc.error[1])>>,
     Meta |-> IF doc.meta = << >> THEN << >>
              ELSE <<UnmarshalMeta(doc.meta[1])>>]

\* ---------------------------------------------------------- ResponseWriter
\* header: the Content-Type of the header map; sent: the Content-Type that
\* went out with the status line; body: the documents written; events: the
\* calls made on the writer, in order
FreshWriter ==
    [header |-> << >>, wroteHeader |-> FALSE, code |-> 0, sent |-> << >>,
     body |-> << >>, events |-> << >>]

\* w.Header().Set("Content-Type", v)
HeaderSet(w, v) ==
    [w EXCEPT !.header = <<v>>, !.events = Append(@, "Header.Set")]

\* the status line and a snapshot of the header map go out, once
Commit(w, statusCode) ==
    IF w.wroteHeader THEN w
    ELSE [w EXCEPT !.wroteHeader = TRUE, !.code = statusCode,
                   !.sent = w.header]

\* w.WriteHeader(statusCode)
WriteHeader(w, statusCode) ==
    [Commit(w, statusCode) EXCEPT !.events = Append(@, "WriteHeader")]

\* w.Write(b): commits 200 first when no status went out; fails when the
\* stream does (writeOK = FALSE), and then nothing of b counts as written
Write(w, doc, writeOK) ==
    LET w1 == [Commit(w, StatusOK) EXCEPT !.events = Append(@, "Write")] IN
    IF writeOK
    THEN [w |-> [w1 EXCEPT !.body = Append(@, doc)], err |-> ErrNil]
    ELSE [w |-> w1, err |-> ErrWrite]

\* json.NewEncoder(w).Encode(payload): marshals into a buffer, returns the
\* marshal error without writing, else returns what the one Write returned
\* (mutant) the result of the Write is dropped
EncodeIgnoringWrite(w, payload, writeOK) ==
    IF ~Serializable(payload)
    THEN [w |-> w, err |-> ErrJSON]
    ELSE [w |-> Write(w, MarshalResponse(payload), writeOK).w,
          err |-> ErrNil]

\* (mutant) a failed Write is tried once more
EncodeRetry(w, payload, writeOK) ==
    IF ~Serializable(payload)
    THEN [w |-> w, err |-> ErrJSON]
    ELSE LET first == Write(w, MarshalResponse(payload), writeOK) IN
         IF first.err = ErrNil THEN first
         ELSE Write(first.w, MarshalResponse(payload), writeOK)

Encode(w, payload, writeOK) ==
    IF ~Serializable(payload)
    THEN [w |-> w, err |-> ErrJSON]
    ELSE Write(w, MarshalResponse(payload), writeOK)

\* (mutant) no WriteHeader call: the Write commits 200
RespondJSONNoStatus(w, statusCode, payload, writeOK) ==
    Encode(HeaderSet(w, ContentTypeJSON), payload, writeOK)

\* (mutant) marshals first and touches the writer only on success
RespondJSONMarshalFirst(w, statusCode, payload, writeOK) ==
    IF ~Serializable(payload)
    THEN [w |-> w, err |-> ErrJSON]
    ELSE Encode(WriteHeader(HeaderSet(w, ContentTypeJSON), statusCode),
                payload, writeOK)

\* (mutant) the header is set after the status line went out
RespondJSONHeaderLate(w, statusCode, payload, writeOK) ==
    Encode(HeaderSet(WriteHeader(w, statusCode), ContentTypeJSON),
           payload, writeOK)

RespondJSON(w, statusCode, payload, writeOK) ==
    Encode(WriteHeader(HeaderSet(w, ContentTypeJSON), statusCode),
           payload, writeOK)

\* ------------------------------------------------------------------- Init
InitHeap ==
    << [parent |-> Background, key |-> TraceIDKey, val |-> "t0"],
       [parent |-> Background, key |-> OtherKey, val |-> "x"] >>

Init ==
    /\ heap = InitHeap
    /\ parent \in {NilCtx, Background, 1, 2}
    /\ rctx = [r \in Requests |-> parent]
    /\ wt = [r \in Requests |-> << >>]
    /\ na = [r \in Requests |-> << >>]
    /\ built = << >>
    /\ resp = << >>
    /\ call = << >>

\* ---------------------------------------------------------------- actions
\* a panic ends the request
Live(r) == IF wt[r] = << >> THEN TRUE ELSE ~wt[r][1].panicked

\* ctx := WithTraceID(ctx, traceID) in request r
WithTraceIDCall(r, traceID) ==
    /\ Live(r)
    /\ Len(heap) < MaxCtx
    /\ LET res == WithTraceID(heap, rctx[r], traceID) IN
        /\ heap' = res.heap
        /\ wt' = [wt EXCEPT ![r] =
                    << [ctx |-> rctx[r], traceID |-> traceID,
                        was |-> NewAPIResponse(heap, rctx[r]).TraceID,
                        ret |-> res.ret, panicked |-> res.panicked] >>]
        /\ rctx' = [rctx EXCEPT ![r] = IF res.panicked THEN @ ELSE res.ret]
    /\ UNCHANGED <<parent, na>>
    /\ UNCHANGED respVars

\* NewAPIResponse(ctx) in request r
NewAPIResponseCall(r) ==
    /\ Live(r)
    /\ na' = [na EXCEPT ![r] = << [ctx |-> rctx[r],
                                   ret |-> NewAPIResponse(heap, rctx[r])] >>]
    /\ UNCHANGED <<heap, parent, rctx, wt>>
    /\ UNCHANGED respVars

\* resp := NewSuccessResponse(data, meta); a new response cycle starts
NewSuccessResponseCall(data, meta) ==
    /\ LET ret == NewSuccessResponse(data, meta) IN
        /\ built' = << [op |-> "NewSuccessResponse", data |-> data,
                        meta |-> meta, ret |-> ret] >>
        /\ resp' = <<ret>>
    /\ call' = << >>
    /\ UNCHANGED ctxVars

\* resp := NewErrorResponse(httpStatus, code, message)
NewErrorResponseCall(httpStatus, code, message) ==
    /\ LET ret == NewErrorResponse(httpStatus, code, message) IN
        /\ built' = << [op |-> "NewErrorResponse", httpStatus |-> httpStatus,
                        code |-> code, message |-> message, ret |-> ret] >>
        /\ resp' = <<ret>>
    /\ call' = << >>
    /\ UNCHANGED ctxVars

\* resp := NewValidationErrorResponse(details)
NewValidationErrorResponseCall(details) ==
    /\ LET ret == NewValidationErrorResponse(details) IN
        /\ built' = << [op |-> "NewValidationErrorResponse",
                        details |-> details, ret |-> ret] >>
        /\ resp' = <<ret>>
    /\ call' = << >>
    /\ UNCHANGED ctxVars

\* resp.TraceID = NewAPIResponse(ctx).TraceID, with the envelope request r
\* got from NewAPIResponse
CopyTraceID(r) ==
    /\ resp # << >>
    /\ call = << >>
    /\ na[r] # << >>
    /\ resp' = << [resp[1] EXCEPT !.TraceID = na[r][1].ret.TraceID] >>
    /\ UNCHANGED <<built, call>>
    /\ UNCHANGED ctxVars

\* err := RespondJSON(w, statusCode, resp) on the cycle's ResponseWriter
RespondJSONCall(statusCode, writeOK) ==
    /\ resp # << >>
    /\ call = << >>
    /\ LET res == RespondJSON(FreshWriter, statusCode, resp[1], writeOK) IN
        call' = << [statusCode |-> statusCode, payload |-> resp[1],
                    writeOK |-> writeOK, w |-> res.w, err |-> res.err] >>
    /\ UNCHANGED <<built, resp>>
    /\ UNCHANGED ctxVars

\* the builders and the transport helper, one response cycle after another
Next ==
    \/ \E r \in Requests : NewAPIResponseCall(r)
    \/ \E d \in DataValues, m \in MetaValues : NewSuccessResponseCall(d, m)
    \/ \E h \in HTTPStatuses, c \in Codes, m \in Messages :
          NewErrorResponseCall(h, c, m)
    \/ \E ds \in DetailsValues : NewValidationErrorResponseCall(ds)
    \/ \E r \in Requests : CopyTraceID(r)
    \/ \E s \in StatusCodes, ok \in BOOLEAN : RespondJSONCall(s, ok)

Spec == Init /\ [][Next]_vars

\* concurrent requests deriving and reading trace contexts
NextTrace ==
    \/ \E r \in Requests, t \in TraceIDs : WithTraceIDCall(r, t)
    \/ \E r \in Requests : NewAPIResponseCall(r)

SpecTrace == Init /\ [][NextTrace]_vars

\* ------------------------------------------------------------- properties
BuiltBy(op) == IF built = << >> THEN FALSE ELSE built[1].op = op

\* C1: NewSuccessResponse(data, meta), nil data and nil meta included,
\* returns status "success", no error, the given data and the given meta.
C1_SuccessEnvelope ==
    BuiltBy("NewSuccessResponse") =>
        /\ built[1].ret.Status = "success"
        /\ built[1].ret.Error = << >>
        /\ built[1].ret.Data = built[1].data
        /\ built[1].ret.Meta = built[1].meta

C1_Witness ==
    /\ BuiltBy("NewSuccessResponse")
    /\ built[1].data = << >>
    /\ built[1].meta # << >>
    /\ built[1].ret.Meta = built[1].meta

\* C2: NewErrorResponse(httpStatus, code, message), unvalidated and with
\* empty strings included, returns status "error", no data, an error with
\* exactly the given httpStatus, code and message, and empty details.
C2_ErrorEnvelope ==
    BuiltBy("NewErrorResponse") =>
        /\ built[1].ret.Status = "error"
        /\ built[1].ret.Data = << >>
        /\ Len(built[1].ret.Error) = 1
        /\ built[1].ret.Error[1].HTTPStatus = built[1].httpStatus
        /\ built[1].ret.Error[1].Code = built[1].code
        /\ built[1].ret.Error[1].Message = built[1].message
        /\ Len(built[1].ret.Error[1].Details) = 0

C2_Witness ==
    /\ BuiltBy("NewErrorResponse")
    /\ built[1].code = ""
    /\ built[1].message # ""
    /\ built[1].httpStatus = 0
    /\ built[1].ret.Error[1].Message = built[1].message

\* C3: NewValidationErrorResponse(details), the empty sequence included,
\* returns status "error", httpStatus 422, code "VALIDATION_FAILED" and
\* details equal to the input element by element: same length, same order.
C3_ValidationEnvelope ==
    BuiltBy("NewValidationErrorResponse") =>
        /\ built[1].ret.Status = "error"
        /\ Len(built[1].ret.Error) = 1
        /\ built[1].ret.Error[1].HTTPStatus = 422
        /\ built[1].ret.Error[1].Code = "VALIDATION_FAILED"
        /\ Len(built[1].ret.Error[1].Details) = Len(built[1].details)
        /\ \A i \in 1..Len(built[1].details) :
              built[1].ret.Error[1].Details[i] = built[1].details[i]

C3_Witness ==
    /\ BuiltBy("NewValidationErrorResponse")
    /\ Len(built[1].details) = 2
    /\ built[1].details[1] # built[1].details[2]
    /\ built[1].ret.Error[1].Details[2] = built[1].details[2]

\* C4: no envelope returned by NewSuccessResponse, NewErrorResponse,
\* NewValidationErrorResponse or NewAPIResponse has both data and error
\* populated.
NotBoth(v) == ~(v.Data # << >> /\ v.Error # << >>)

C4_DataErrorExclusive ==
    /\ built # << >> => NotBoth(built[1].ret)
    /\ \A r \in Requests : na[r] # << >> => NotBoth(na[r][1].ret)

C4_Witness ==
    /\ BuiltBy("NewErrorResponse")
    /\ built[1].message # ""
    /\ built[1].ret.Error # << >>
    /\ \E r \in Requests : na[r] # << >>

\* the payload as a reader of the body can know it: HTTPStatus is not sent
ZeroHTTPStatus(v) ==
    IF v.Error = << >> THEN v
    ELSE [v EXCEPT !.Error = << [v.Error[1] EXCEPT !.HTTPStatus = 0] >>]

\* C6 as stated: for every status code S and serializable payload P,
\* RespondJSON returns no error, commits status S and Content-Type
\* application/json, and the body deserializes back to a value equal to P.
C6_Original ==
    call # << >> =>
        (Serializable(call[1].payload) =>
            /\ call[1].err = ErrNil
            /\ call[1].w.code = call[1].statusCode
            /\ call[1].w.sent = <<"application/json">>
            /\ Len(call[1].w.body) = 1
            /\ UnmarshalResponse(call[1].w.body[1]) = call[1].payload)

\* C6 amended: for every status code S and serializable payload P, when the
\* write of the body to the response stream succeeds, RespondJSON returns no
\* error, commits status S and Content-Type application/json, and the body
\* deserializes back to P in every field but error.httpStatus, which is not
\* serialized and reads back as 0.
C6_RoundTrip ==
    call # << >> =>
        (Serializable(call[1].payload) /\ call[1].writeOK =>
            /\ call[1].err = ErrNil
            /\ call[1].w.code = call[1].statusCode
            /\ call[1].w.sent = <<"application/json">>
            /\ Len(call[1].w.body) = 1
            /\ UnmarshalResponse(call[1].w.body[1]) =
                  ZeroHTTPStatus(call[1].payload))

C6_Witness ==
    /\ call # << >>
    /\ call[1].writeOK
    /\ call[1].statusCode = 422
    /\ call[1].payload.Error # << >>
    /\ call[1].payload.Error[1].HTTPStatus = 422
    /\ Len(call[1].payload.Error[1].Details) = 2
    /\ call[1].payload.TraceID # ""
    /\ Len(call[1].w.body) = 1

\* C7: when the payload has no valid JSON representation, RespondJSON returns
\* an error, and the status code and the Content-Type header given to the
\* call are committed to the response all the same.
C7_FailureAfterCommit ==
    call # << >> =>
        (~Serializable(call[1].payload) =>
            /\ call[1].err # ErrNil
            /\ call[1].w.wroteHeader
            /\ call[1].w.code = call[1].statusCode
            /\ call[1].w.sent = <<"application/json">>)

C7_Witness ==
    /\ call # << >>
    /\ ~Serializable(call[1].payload)
    /\ call[1].statusCode = 500
    /\ call[1].err = ErrJSON
    /\ call[1].w.body = << >>

\* C8 as stated: RespondJSON returns an error if and only if serialization
\* of the payload fails; a failing write of the body does not make it return
\* an error.
C8_Original ==
    call # << >> =>
        (call[1].err # ErrNil <=> ~Serializable(call[1].payload))

\* C8 amended: RespondJSON returns an error if and only if serialization of
\* the payload fails or the write of the encoded body to the response stream
\* fails; every serialization failure makes it return an error, and so does
\* a failing write of the body.
C8_FailureKinds ==
    call # << >> =>
        /\ call[1].err # ErrNil <=>
              (~Serializable(call[1].payload) \/ ~call[1].writeOK)
        /\ call[1].err = ErrJSON <=> ~Serializable(call[1].payload)

C8_Witness ==
    /\ call # << >>
    /\ Serializable(call[1].payload)
    /\ ~call[1].writeOK
    /\ call[1].err = ErrWrite

\* C9: in every execution of RespondJSON the Content-Type header is set
\* first, the status code is written second, and the body, which is written
\* only when serialization succeeded, comes after both; the header is never
\* set after the status line is committed.
IndexesOf(ev, name) == {i \in 1..Len(ev) : ev[i] = name}

C9_EventOrder ==
    call # << >> =>
        LET ev == call[1].w.events IN
        /\ IndexesOf(ev, "Header.Set") # {}
        /\ IndexesOf(ev, "WriteHeader") # {}
        /\ \A i \in IndexesOf(ev, "Header.Set") :
              \A j \in IndexesOf(ev, "WriteHeader") \cup IndexesOf(ev, "Write") :
                 i < j
        /\ \A i \in IndexesOf(ev, "WriteHeader") :
              \A j \in IndexesOf(ev, "Write") : i < j
        /\ Serializable(call[1].payload) => IndexesOf(ev, "Write") # {}
        /\ call[1].w.sent = call[1].w.header

C9_Witness ==
    /\ call # << >>
    /\ call[1].w.events = <<"Header.Set", "WriteHeader", "Write">>
    /\ call[1].w.wroteHeader

\* whether some ancestor of c (c included) carries a trace id
RECURSIVE HasTrace(_, _)
HasTrace(h, c) ==
    IF c = NilCtx \/ c = Background THEN FALSE
    ELSE h[c].key = TraceIDKey \/ HasTrace(h, h[c].parent)

\* request r read the very context its last WithTraceID call returned
ReadBack(r) ==
    IF wt[r] = << >> \/ na[r] = << >> THEN FALSE
    ELSE ~wt[r][1].panicked /\ na[r][1].ctx = wt[r][1].ret

\* NewAPIResponse on a context without a trace id, or on nil, gives an empty
\* TraceID
EmptyWhenAbsent ==
    \A r \in Requests :
        na[r] # << >> =>
            (~HasTrace(heap, na[r][1].ctx) => na[r][1].ret.TraceID = "")

\* C5 as stated: for every trace id T and every context ctx, nil included,
\* NewAPIResponse(WithTraceID(ctx, T)).TraceID = T; NewAPIResponse on a
\* context without a trace id, or on nil, gives an empty TraceID.
C5_Original ==
    /\ \A r \in Requests :
          wt[r] # << >> =>
              /\ ~wt[r][1].panicked
              /\ ReadBack(r) => na[r][1].ret.TraceID = wt[r][1].traceID
    /\ EmptyWhenAbsent

\* C5 amended: for every trace id T and every non-nil context ctx,
\* NewAPIResponse(WithTraceID(ctx, T)).TraceID = T (WithTraceID panics on a
\* nil context); NewAPIResponse on a context without a trace id, or on nil,
\* gives an empty TraceID and never faults.
C5_TraceRoundTrip ==
    /\ \A r \in Requests :
          wt[r] # << >> =>
              /\ wt[r][1].ctx # NilCtx => ~wt[r][1].panicked
              /\ ReadBack(r) => na[r][1].ret.TraceID = wt[r][1].traceID
    /\ EmptyWhenAbsent

C5_Witness ==
    \E r \in Requests :
        /\ ReadBack(r)
        /\ HasTrace(heap, wt[r][1].ctx)
        /\ wt[r][1].traceID = "t1"
        /\ na[r][1].ret.TraceID = "t1"

\* C10: WithTraceID(ctx, T) returns a new context and leaves every existing
\* context reading as before, so whatever the interleaving of the requests
\* that derive from the common parent, each derived context reads back its
\* own id and the parent reads back its original value.
C10_ConcurrentSafety ==
    /\ \A r \in Requests :
          wt[r] # << >> =>
              (~wt[r][1].panicked =>
                  /\ wt[r][1].ret # wt[r][1].ctx
                  /\ NewAPIResponse(heap, wt[r][1].ret).TraceID =
                        wt[r][1].traceID
                  /\ NewAPIResponse(heap, wt[r][1].ctx).TraceID =
                        wt[r][1].was)
    /\ NewAPIResponse(heap, parent) = NewAPIResponse(InitHeap, parent)
    /\ \A c \in 1..Len(InitHeap) :
          NewAPIResponse(heap, c) = NewAPIResponse(InitHeap, c)

C10_Witness ==
    /\ HasTrace(heap, parent)
    /\ \A r \in Requests : wt[r] # << >>
    /\ \E r1, r2 \in Requests :
          /\ wt[r1][1].ctx = parent
          /\ wt[r2][1].ctx = parent
          /\ wt[r1][1].traceID = "t1"
          /\ wt[r2][1].traceID = "t2"
          /\ ~wt[r1][1].panicked
          /\ ~wt[r2][1].panicked

\* the keys that appear in a serialized envelope
EnvelopeKeys == {"status", "trace_id", "data", "error", "meta"}
KeysOf(doc) == {k \in EnvelopeKeys : doc[k] # << >>}

\* C11: an envelope with an empty trace id, no meta and no error is
\* serialized as an object whose only keys are status and data (data when
\* the envelope has any): trace_id, error and meta do not appear at all,
\* not even as null.
C11_OmissionRule ==
    call # << >> =>
        (/\ call[1].err = ErrNil
         /\ call[1].payload.TraceID = ""
         /\ call[1].payload.Meta = << >>
         /\ call[1].payload.Error = << >>
         => /\ Len(call[1].w.body) = 1
            /\ KeysOf(call[1].w.body[1]) \subseteq {"status", "data"}
            /\ "status" \in KeysOf(call[1].w.body[1])
            /\ "data" \in KeysOf(call[1].w.body[1])
                  <=> call[1].payload.Data # << >>)

C11_Witness ==
    /\ call # << >>
    /\ call[1].err = ErrNil
    /\ call[1].payload.TraceID = ""
    /\ call[1].payload.Meta = << >>
    /\ call[1].payload.Error = << >>
    /\ call[1].payload.Data = <<"d1">>
    /\ KeysOf(call[1].w.body[1]) = {"status", "data"}

\* C12: the serialized error object of every error envelope, whatever its
\* httpStatus, has no http_status member: its keys are code and message,
\* and details exactly when details is non-empty.
ErrorKeys(obj) == {k \in DOMAIN obj : obj[k] # << >>}

C12_NoHTTPStatusInBody ==
    call # << >> =>
        (call[1].err = ErrNil /\ call[1].payload.Error # << >> =>
            /\ Len(call[1].w.body) = 1
            /\ call[1].w.body[1].error # << >>
            /\ "http_status" \notin DOMAIN call[1].w.body[1].error[1]
            /\ ErrorKeys(call[1].w.body[1].error[1]) =
                  IF Len(call[1].payload.Error[1].Details) = 0
                  THEN {"code", "message"}
                  ELSE {"code", "message", "details"})

C12_Witness ==
    /\ call # << >>
    /\ call[1].err = ErrNil
    /\ call[1].payload.Error # << >>
    /\ call[1].payload.Error[1].HTTPStatus = 500
    /\ call[1].payload.Error[1].Code = ""
    /\ ErrorKeys(call[1].w.body[1].error[1]) = {"code", "message"}

\* C13: the envelope NewValidationErrorResponse(details) returns carries the
\* message "The submitted data is invalid.", whatever the details.
C13_DefaultMessage ==
    BuiltBy("NewValidationErrorResponse") =>
        /\ Len(built[1].ret.Error) = 1
        /\ built[1].ret.Error[1].Message = "The submitted data is invalid."

CountOf(ev, name) == Cardinality({i \in 1..Len(ev) : ev[i] = name})

\* C14 as stated: on every path of a RespondJSON call, the one where
\* serialization fails included, the Content-Type header is set once, the
\* status line is written once and the body is written once.
C14_Original ==
    call # << >> =>
        /\ CountOf(call[1].w.events, "Header.Set") = 1
        /\ CountOf(call[1].w.events, "WriteHeader") = 1
        /\ CountOf(call[1].w.events, "Write") = 1

\* C14 amended: in each RespondJSON call the Content-Type header is set
\* once and the status line is written once, on every path; the body is
\* written once, with no retry, when serialization succeeds, and is not
\* written at all when serialization fails.
C14_OncePerPart ==
    call # << >> =>
        /\ CountOf(call[1].w.events, "Header.Set") = 1
        /\ CountOf(call[1].w.events, "WriteHeader") = 1
        /\ CountOf(call[1].w.events, "Write") =
              IF Serializable(call[1].payload) THEN 1 ELSE 0
        /\ Len(call[1].w.body) <= 1

C14_Witness ==
    /\ call # << >>
    /\ Serializable(call[1].payload)
    /\ ~call[1].writeOK
    /\ CountOf(call[1].w.events, "Write") = 1
    /\ call[1].w.body = << >>

\* C15: for a nil context, a context without a trace id and a context with
\* one, NewAPIResponse returns an envelope whose status, data, meta and
\* error are all unset; only TraceID can be populated.
C15_OnlyTraceID ==
    \A r \in Requests :
        na[r] # << >> =>
            /\ na[r][1].ret.Status = ""
            /\ na[r][1].ret.Data = << >>
            /\ na[r][1].ret.Meta = << >>
            /\ na[r][1].ret.Error = << >>
            /\ [na[r][1].ret EXCEPT !.TraceID = ""] = ZeroResponse

C15_Witness ==
    \E r1, r2 \in Requests :
        /\ na[r1] # << >>
        /\ na[r2] # << >>
        /\ na[r1][1].ret.TraceID = "t2"
        /\ na[r2][1].ctx = NilCtx \/ ~HasTrace(heap, na[r2][1].ctx)
        /\ na[r2][1].ret.TraceID = ""
====
